---- MODULE Spec2Model ----
(***************************************************************************)
(* Layered subscriptions of react-redux: the listener collection (a doubly *)
(* linked list of callbacks), the Subscription node built on it            *)
(* (utils/Subscription) and the Provider effect that attaches the root     *)
(* Subscription to the store (components/Provider.tsx).                    *)
(*                                                                         *)
(* Every function of the source is an operator from a program state (a     *)
(* record of all the objects' fields) to the program state after the call. *)
(* JavaScript is single threaded, so one action of the model is one call   *)
(* made from outside, run to completion with every nested call it makes.   *)
(***************************************************************************)
EXTENDS Integers, Sequences, FiniteSets, TLC

\* ------------------------------------------------------------------ bounds
\* Subscription nodes created at construction.
NumNodes == 2
\* Listener objects ever allocated (each subscribe() allocates one).
MaxListeners == 3
\* Listener collections ever allocated (each connect allocates one).
MaxRegs == 2
\* Distinct store states a dispatch can produce.
NumStates == 2
\* Store changes since render that are told apart (more count as this many).
MaxChanges == 2
\* Calls written in the callbacks of consumers, in all (each callback runs
\* the calls written in it every time it is invoked).
MaxSteps == 2
\* Calls on the nodes of a tree written in the callbacks of consumers, in all.
MaxTreeCalls == 1

Nodes == 1..NumNodes
States == 1..NumStates

VARIABLES
    lst,                 \* heap of Listener objects and of the closures made with them
    regs,                \* heap of listener collections: their first / last
    unsubscribe,         \* per node: the upstream unsubscribe handle
    listeners,           \* per node: 0 is nullListeners, else a collection of regs
    subscriptionsAmount, \* per node: reasons to keep the subscription active
    selfSubscribed,      \* per node
    onStateChange,       \* per node: subscription.onStateChange
    storeListeners,      \* the store's listeners (nodes whose handleChangeWrapper it holds)
    storeState,          \* store.getState()
    previousState,       \* Provider: the snapshot captured at render
    effectActive,        \* Provider: the effect has run and was not cleaned up
    changes,             \* Provider: store changes since render, counted up to MaxChanges
    trace,               \* callbacks invoked by the last call, in order
    err,                 \* the last call ended by a thrown error
    calls,               \* per node: what the last call called (upstream subscribe,
                         \* upstream unsubscribe, notifyNestedSubs), how many times
    ghostLive,           \* listeners registered whose removal handle was never called
    cleared,             \* clear() was called on a collection that held listeners
    lastOp               \* the last call made from outside

vars == <<lst, regs, unsubscribe, listeners, subscriptionsAmount, selfSubscribed,
          onStateChange, storeListeners, storeState, previousState, effectActive,
          changes, trace, err, calls, ghostLive, cleared, lastOp>>

\* The program state as one record, the argument and result of every operator.
Cur ==
    [lst |-> lst, regs |-> regs, unsubscribe |-> unsubscribe, listeners |-> listeners,
     subscriptionsAmount |-> subscriptionsAmount, selfSubscribed |-> selfSubscribed,
     onStateChange |-> onStateChange, storeListeners |-> storeListeners,
     storeState |-> storeState, trace |-> trace, err |-> err, calls |-> calls,
     ghostLive |-> ghostLive, cleared |-> cleared]

\* ------------------------------------------------------------ values
\* createSubscription(store, parentSub): the nodes form a chain below one root.
ParentSub(n) == n - 1

Undefined == [kind |-> "undefined", id |-> 0]
\* The function returned by store.subscribe for node n.
StoreHandle(n) == [kind |-> "store", id |-> n]
\* The cleanup closure returned by addNestedSub, named by the listener it made.
NestedHandle(l) == [kind |-> "nested", id |-> l]

\* subscription.handleChangeWrapper of node n, as a callback.
HandleChangeWrapperOf(n) == [kind |-> "hcw", node |-> n, unsub |-> {}]
\* A consumer's callback: it calls the unsubscribe handles of the listeners in u.
LeafCallback(u) == [kind |-> "leaf", node |-> 0, unsub |-> u]

\* One call a consumer's callback makes while it runs.
Call(do, arg) == [do |-> do, arg |-> arg]
\* A consumer's callback that makes the calls of s, in order, while it runs.
ScriptCallback(s) == [kind |-> "script", node |-> 0, unsub |-> {}, steps |-> s]

NoCalls == [n \in Nodes |-> [sub |-> 0, unsub |-> 0, notify |-> 0]]

\* What each call from outside starts from: nothing invoked, nothing thrown yet.
Begin(st) == [st EXCEPT !.trace = <<>>, !.err = FALSE, !.calls = NoCalls]

\* ------------------------------------------------- listener collection
\* createListenerCollection(): first = null, last = null.
CreateListenerCollection(st) ==
    [st EXCEPT !.regs = Append(@, [first |-> 0, last |-> 0])]

\* clear(): first = null; last = null. The Listener objects keep their links.
Clear(st, r) ==
    [st EXCEPT !.regs[r] = [first |-> 0, last |-> 0],
               !.cleared = @ \/ st.regs[r].first # 0]

RECURSIVE GetFrom(_, _)
GetFrom(st, l) ==
    IF l = 0 THEN <<>> ELSE <<l>> \o GetFrom(st, st.lst[l].next)

\* get(): the listeners reached from first by next.
Get(st, r) == GetFrom(st, st.regs[r].first)

\* Faulty variant of subscribe: listener.prev.next is not set.
SubscribeNoLink(st, r, cb, n) ==
    LET l == Len(st.lst) + 1
        prev == st.regs[r].last
        s1 == [st EXCEPT
                 !.lst = Append(@, [callback |-> cb, next |-> 0, prev |-> prev,
                                    reg |-> r, isSubscribed |-> TRUE,
                                    removed |-> FALSE, owner |-> n]),
                 !.regs[r].last = l,
                 !.ghostLive = @ \cup {l}]
    IN  IF prev # 0 THEN s1 ELSE [s1 EXCEPT !.regs[r].first = l]

\* Faulty variant of subscribe: the new listener is put before first.
SubscribeAtHead(st, r, cb, n) ==
    LET l == Len(st.lst) + 1
        nx == st.regs[r].first
        s1 == [st EXCEPT
                 !.lst = Append(@, [callback |-> cb, next |-> nx, prev |-> 0,
                                    reg |-> r, isSubscribed |-> TRUE,
                                    removed |-> FALSE, owner |-> n]),
                 !.regs[r].first = l,
                 !.ghostLive = @ \cup {l}]
    IN  IF nx # 0
        THEN [s1 EXCEPT !.lst[nx].prev = l]
        ELSE [s1 EXCEPT !.regs[r].last = l]

\* subscribe(callback): a new Listener appended after last. The closure it
\* returns is named by the new listener, which is Len(lst) of the result.
Subscribe(st, r, cb, n) ==
    LET l == Len(st.lst) + 1
        prev == st.regs[r].last
        s1 == [st EXCEPT
                 !.lst = Append(@, [callback |-> cb, next |-> 0, prev |-> prev,
                                    reg |-> r, isSubscribed |-> TRUE,
                                    removed |-> FALSE, owner |-> n]),
                 !.regs[r].last = l,
                 !.ghostLive = @ \cup {l}]
    IN  IF prev # 0
        THEN [s1 EXCEPT !.lst[prev].next = l]
        ELSE [s1 EXCEPT !.regs[r].first = l]

\* Faulty variant of unsubscribe: the removed listener's own links are reset.
UnsubscribeClearsLinks(st, l) ==
    LET r == st.lst[l].reg
        s0 == [st EXCEPT !.ghostLive = @ \ {l}]
    IN  IF ~s0.lst[l].isSubscribed \/ s0.regs[r].first = 0
        THEN s0
        ELSE LET s1 == [s0 EXCEPT !.lst[l].isSubscribed = FALSE]
                 nx == s1.lst[l].next
                 s2 == IF nx # 0
                       THEN [s1 EXCEPT !.lst[nx].prev = s1.lst[l].prev]
                       ELSE [s1 EXCEPT !.regs[r].last = s1.lst[l].prev]
                 pv == s2.lst[l].prev
                 s3 == IF pv # 0
                       THEN [s2 EXCEPT !.lst[pv].next = s2.lst[l].next]
                       ELSE [s2 EXCEPT !.regs[r].first = s2.lst[l].next]
             IN  [s3 EXCEPT !.lst[l].next = 0, !.lst[l].prev = 0]

\* unsubscribe(), the closure subscribe returned for listener l.
Unsubscribe(st, l) ==
    LET r == st.lst[l].reg
        s0 == [st EXCEPT !.ghostLive = @ \ {l}]
    IN  IF ~s0.lst[l].isSubscribed \/ s0.regs[r].first = 0
        THEN s0
        ELSE LET s1 == [s0 EXCEPT !.lst[l].isSubscribed = FALSE]
                 nx == s1.lst[l].next
                 s2 == IF nx # 0
                       THEN [s1 EXCEPT !.lst[nx].prev = s1.lst[l].prev]
                       ELSE [s1 EXCEPT !.regs[r].last = s1.lst[l].prev]
                 pv == s2.lst[l].prev
             IN  IF pv # 0
                 THEN [s2 EXCEPT !.lst[pv].next = s2.lst[l].next]
                 ELSE [s2 EXCEPT !.regs[r].first = s2.lst[l].next]

\* The handles of the listeners in u, called in increasing order.
RECURSIVE UnsubscribeAll(_, _)
UnsubscribeAll(st, u) ==
    IF u = {} THEN st
    ELSE LET l == CHOOSE x \in u : \A y \in u : x <= y
         IN  UnsubscribeAll(IF l <= Len(st.lst) THEN Unsubscribe(st, l) ELSE st,
                            u \ {l})

\* ------------------------------------------------------ the store (redux)
\* store.subscribe(handleChangeWrapper) of node n: one more listener, last.
StoreSubscribe(st, n) ==
    [st EXCEPT !.storeListeners = Append(@, n)]

RECURSIVE RemoveFirst(_, _)
RemoveFirst(s, x) ==
    IF s = <<>> THEN <<>>
    ELSE IF Head(s) = x THEN Tail(s)
    ELSE <<Head(s)>> \o RemoveFirst(Tail(s), x)

\* The unsubscribe store.subscribe returned to node n: that listener is removed.
StoreUnsubscribe(st, n) ==
    [st EXCEPT !.storeListeners = RemoveFirst(@, n)]

\* ------------------------------------------------------ Subscription node
\* Faulty variant of nullListeners: notify is missing, so the call throws.
NullNotifyThrows(st) == [st EXCEPT !.err = TRUE]

\* nullListeners.notify(): nothing.
NullNotify(st) == st

\* nullListeners.get(): [].
NullGet == <<>>

\* nullListeners has no subscribe and no clear: calling one is a TypeError.
NullMissingMethod(st) == [st EXCEPT !.err = TRUE]

\* subscription.getListeners().get()
GetListeners(st, n) ==
    IF st.listeners[n] = 0 THEN NullGet ELSE Get(st, st.listeners[n])

RECURSIVE TrySubscribe(_, _), AddNestedSub(_, _, _)

\* Faulty variant of trySubscribe: every node subscribes to the store itself.
TrySubscribeToStore(st, n) ==
    LET s1 == [st EXCEPT !.subscriptionsAmount[n] = @ + 1]
    IN  IF s1.unsubscribe[n] = Undefined
        THEN LET s2 == StoreSubscribe(s1, n)
                 s3 == [s2 EXCEPT !.unsubscribe[n] = StoreHandle(n),
                                  !.calls[n].sub = @ + 1]
                 s4 == CreateListenerCollection(s3)
             IN  [s4 EXCEPT !.listeners[n] = Len(s4.regs)]
        ELSE s1

\* Faulty variant of trySubscribe: it connects upstream without testing unsubscribe.
TrySubscribeAlways(st, n) ==
    LET s1 == [st EXCEPT !.subscriptionsAmount[n] = @ + 1]
        s2 == IF ParentSub(n) # 0
              THEN AddNestedSub(s1, ParentSub(n), HandleChangeWrapperOf(n))
              ELSE StoreSubscribe(s1, n)
        h  == IF ParentSub(n) # 0
              THEN NestedHandle(Len(s2.lst))
              ELSE StoreHandle(n)
        s3 == [s2 EXCEPT !.unsubscribe[n] = h, !.calls[n].sub = @ + 1]
        s4 == CreateListenerCollection(s3)
    IN  [s4 EXCEPT !.listeners[n] = Len(s4.regs)]

\* trySubscribe(): one more reason; the first one connects the node upstream
\* and gives it a listener collection of its own.
TrySubscribe(st, n) ==
    LET s1 == [st EXCEPT !.subscriptionsAmount[n] = @ + 1]
    IN  IF s1.unsubscribe[n] = Undefined
        THEN LET s2 == IF ParentSub(n) # 0
                       THEN AddNestedSub(s1, ParentSub(n), HandleChangeWrapperOf(n))
                       ELSE StoreSubscribe(s1, n)
                 h  == IF ParentSub(n) # 0
                       THEN NestedHandle(Len(s2.lst))
                       ELSE StoreHandle(n)
                 s3 == [s2 EXCEPT !.unsubscribe[n] = h, !.calls[n].sub = @ + 1]
                 s4 == CreateListenerCollection(s3)
             IN  [s4 EXCEPT !.listeners[n] = Len(s4.regs)]
        ELSE s1

\* Faulty variant of addNestedSub: trySubscribe() is not called first.
AddNestedSubNoConnect(st, n, cb) ==
    IF st.listeners[n] = 0
    THEN NullMissingMethod(st)
    ELSE Subscribe(st, st.listeners[n], cb, n)

\* addNestedSub(listener): trySubscribe(), then listeners.subscribe(listener).
\* The cleanup closure it returns is named by the listener made, Len(lst).
AddNestedSub(st, n, cb) ==
    LET s1 == TrySubscribe(st, n)
    IN  IF s1.listeners[n] = 0
        THEN NullMissingMethod(s1)
        ELSE Subscribe(s1, s1.listeners[n], cb, n)

RECURSIVE TryUnsubscribe(_, _), RemoveNestedSub(_, _), CallHandle(_, _)

\* Faulty variant of the call: a cleanup closure of the parent is not called.
CallHandleStoreOnly(st, h) ==
    IF h.kind = "store" THEN StoreUnsubscribe(st, h.id) ELSE st

\* A stored upstream unsubscribe handle, called.
CallHandle(st, h) ==
    IF h.kind = "nested" THEN RemoveNestedSub(st, h.id)
    ELSE IF h.kind = "store" THEN StoreUnsubscribe(st, h.id)
    ELSE st

\* Faulty variant of tryUnsubscribe: the upstream unsubscribe is not called.
TryUnsubscribeKeepUpstream(st, n) ==
    LET s1 == [st EXCEPT !.subscriptionsAmount[n] = @ - 1]
    IN  IF s1.unsubscribe[n] # Undefined /\ s1.subscriptionsAmount[n] = 0
        THEN LET s3 == [s1 EXCEPT !.unsubscribe[n] = Undefined]
                 s4 == IF s3.listeners[n] = 0
                       THEN NullMissingMethod(s3)
                       ELSE Clear(s3, s3.listeners[n])
             IN  [s4 EXCEPT !.listeners[n] = 0]
        ELSE s1

\* Faulty variant of tryUnsubscribe: the counter is not tested against 0.
TryUnsubscribeAnyCount(st, n) ==
    LET s1 == [st EXCEPT !.subscriptionsAmount[n] = @ - 1]
    IN  IF s1.unsubscribe[n] # Undefined
        THEN LET s2 == [CallHandle(s1, s1.unsubscribe[n])
                          EXCEPT !.calls[n].unsub = @ + 1]
                 s3 == [s2 EXCEPT !.unsubscribe[n] = Undefined]
                 s4 == IF s3.listeners[n] = 0
                       THEN NullMissingMethod(s3)
                       ELSE Clear(s3, s3.listeners[n])
             IN  [s4 EXCEPT !.listeners[n] = 0]
        ELSE s1

\* Faulty variant of tryUnsubscribe: listeners is not set to nullListeners.
TryUnsubscribeKeepListeners(st, n) ==
    LET s1 == [st EXCEPT !.subscriptionsAmount[n] = @ - 1]
    IN  IF s1.unsubscribe[n] # Undefined /\ s1.subscriptionsAmount[n] = 0
        THEN LET s2 == [CallHandle(s1, s1.unsubscribe[n])
                          EXCEPT !.calls[n].unsub = @ + 1]
                 s3 == [s2 EXCEPT !.unsubscribe[n] = Undefined]
             IN  IF s3.listeners[n] = 0
                 THEN NullMissingMethod(s3)
                 ELSE Clear(s3, s3.listeners[n])
        ELSE s1

\* tryUnsubscribe(): one reason less; the last one disconnects the node.
TryUnsubscribe(st, n) ==
    LET s1 == [st EXCEPT !.subscriptionsAmount[n] = @ - 1]
    IN  IF s1.unsubscribe[n] # Undefined /\ s1.subscriptionsAmount[n] = 0
        THEN LET s2 == [CallHandle(s1, s1.unsubscribe[n])
                          EXCEPT !.calls[n].unsub = @ + 1]
                 s3 == [s2 EXCEPT !.unsubscribe[n] = Undefined]
                 s4 == IF s3.listeners[n] = 0
                       THEN NullMissingMethod(s3)
                       ELSE Clear(s3, s3.listeners[n])
             IN  [s4 EXCEPT !.listeners[n] = 0]
        ELSE s1

\* Faulty variant of the closure: the removed flag is not tested.
RemoveNestedSubNoGuard(st, l) ==
    LET s0 == [st EXCEPT !.ghostLive = @ \ {l}]
        s1 == [s0 EXCEPT !.lst[l].removed = TRUE]
        s2 == Unsubscribe(s1, l)
    IN  TryUnsubscribe(s2, s2.lst[l].owner)

\* The closure addNestedSub returned for listener l:
\* if (!removed) { removed = true; cleanupListener(); tryUnsubscribe() }
RemoveNestedSub(st, l) ==
    LET s0 == [st EXCEPT !.ghostLive = @ \ {l}]
    IN  IF ~s0.lst[l].removed
        THEN LET s1 == [s0 EXCEPT !.lst[l].removed = TRUE]
                 s2 == Unsubscribe(s1, l)
             IN  TryUnsubscribe(s2, s2.lst[l].owner)
        ELSE s0

\* isSubscribed()
IsSubscribed(st, n) == st.selfSubscribed[n]

\* Faulty variant of the public trySubscribe: selfSubscribed is not tested.
TrySubscribeSelfNoGuard(st, n) ==
    TrySubscribe([st EXCEPT !.selfSubscribed[n] = TRUE], n)

\* subscription.trySubscribe
TrySubscribeSelf(st, n) ==
    IF ~st.selfSubscribed[n]
    THEN TrySubscribe([st EXCEPT !.selfSubscribed[n] = TRUE], n)
    ELSE st

\* subscription.tryUnsubscribe
TryUnsubscribeSelf(st, n) ==
    IF st.selfSubscribed[n]
    THEN TryUnsubscribe([st EXCEPT !.selfSubscribed[n] = FALSE], n)
    ELSE st

RECURSIVE NotifyFrom(_, _), Invoke(_, _), HandleChangeWrapper(_, _),
          NotifyNestedSubs(_, _), Notify(_, _), RunScript(_, _, _), Step(_, _, _)

\* What a record of the running callback of listener l keeps of the program:
\* get() of the collection that holds l and the fields of the nodes.
Snapshot(st, l) ==
    [get |-> Get(st, st.lst[l].reg), unsubscribe |-> st.unsubscribe,
     listeners |-> st.listeners, subscriptionsAmount |-> st.subscriptionsAmount]

\* The callback of listener l makes call c: on the collection that holds l
\* (the handle of listener c.arg, subscribe of a new plain callback), on
\* Subscription node c.arg (addNestedSub of a new plain callback, the public
\* trySubscribe and tryUnsubscribe), the cleanup closure addNestedSub
\* returned for listener c.arg, or a throw. A handle or closure the program
\* has not made, or one a node keeps to itself, is skipped. The call is
\* recorded when it has returned, with the listener and the node it was about.
Step(st, l, c) ==
    LET r  == st.lst[l].reg
        s1 == CASE c.do = "unsubscribe"   -> Unsubscribe(st, c.arg)
                []  c.do = "subscribe"     ->
                        Subscribe(st, r, ScriptCallback(<<>>), st.lst[l].owner)
                []  c.do = "throw"         -> [st EXCEPT !.err = TRUE]
                []  c.do = "addNestedSub"  ->
                        AddNestedSub(st, c.arg, ScriptCallback(<<>>))
                []  c.do = "cleanup"       -> RemoveNestedSub(st, c.arg)
                []  c.do = "trySubscribe"  -> TrySubscribeSelf(st, c.arg)
                []  c.do = "tryUnsubscribe" -> TryUnsubscribeSelf(st, c.arg)
        id == CASE c.do \in {"unsubscribe", "cleanup"}    -> c.arg
                []  c.do \in {"subscribe", "addNestedSub"} -> Len(s1.lst)
                []  c.do = "throw"                         -> l
                []  OTHER                                  -> 0
        n  == CASE c.do \in {"addNestedSub", "trySubscribe", "tryUnsubscribe"} -> c.arg
                []  c.do = "cleanup" -> st.lst[c.arg].owner
                []  OTHER            -> st.lst[l].owner
    IN  IF \/ c.do \in {"unsubscribe", "cleanup"} /\ c.arg > Len(st.lst)
           \/ c.do = "cleanup" /\ st.lst[c.arg].callback.kind = "hcw"
        THEN st
        ELSE [s1 EXCEPT !.trace = Append(@, [ev |-> c.do, id |-> id, node |-> n,
                                              at |-> Snapshot(s1, l)])]

\* The body of a consumer's callback: its calls in order, up to a throw.
RunScript(st, l, s) ==
    IF s = <<>> \/ st.err THEN st
    ELSE RunScript(Step(st, l, Head(s)), l, Tail(s))

\* listener.callback(): the call is recorded, then the callback runs.
Invoke(st, l) ==
    LET cb == st.lst[l].callback
        s1 == [st EXCEPT !.trace = Append(@, [ev |-> cb.kind, id |-> l,
                 node |-> IF cb.kind = "hcw" THEN cb.node ELSE st.lst[l].owner])]
    IN  IF cb.kind = "hcw"
        THEN HandleChangeWrapper(s1, cb.node)
        ELSE IF cb.kind = "script"
        THEN RunScript([st EXCEPT !.trace = Append(@, [ev |-> "script", id |-> l,
                            node |-> st.lst[l].owner, at |-> Snapshot(st, l)])],
                       l, cb.steps)
        ELSE UnsubscribeAll(s1, cb.unsub)

\* Faulty variant of notify: the loop goes on after a callback threw.
NotifyFromCatches(st, l) ==
    IF l = 0 THEN st
    ELSE LET s1 == Invoke(st, l)
         IN  NotifyFrom(s1, s1.lst[l].next)

\* while (listener) { listener.callback(); listener = listener.next }
\* next is read after the callback returned. A callback that throws ends the loop.
NotifyFrom(st, l) ==
    IF l = 0 \/ st.err THEN st
    ELSE LET s1 == Invoke(st, l)
         IN  NotifyFrom(s1, s1.lst[l].next)

\* notify(): batch (./batch) calls the loop synchronously; it starts at first.
Notify(st, r) == NotifyFrom(st, st.regs[r].first)

\* notifyNestedSubs(): listeners.notify()
NotifyNestedSubs(st, n) ==
    LET s1 == [st EXCEPT !.calls[n].notify = @ + 1]
    IN  IF s1.listeners[n] = 0 THEN NullNotify(s1) ELSE Notify(s1, s1.listeners[n])

\* Faulty variant of handleChangeWrapper: the test of onStateChange is inverted.
HandleChangeWrapperInverted(st, n) ==
    IF st.onStateChange[n] = "notifyNestedSubs"
    THEN st
    ELSE NotifyNestedSubs(st, n)

\* handleChangeWrapper(): onStateChange is called when it is set. The only
\* handler the source assigns is notifyNestedSubs (Provider.tsx).
HandleChangeWrapper(st, n) ==
    IF st.onStateChange[n] = "notifyNestedSubs"
    THEN NotifyNestedSubs(st, n)
    ELSE st

\* A dispatch: the store calls the listeners it held when the dispatch began.
RECURSIVE StoreNotify(_, _)
StoreNotify(st, ls) ==
    IF ls = <<>> \/ st.err THEN st
    ELSE LET n  == Head(ls)
             s1 == [st EXCEPT !.trace = Append(@, [ev |-> "hcw", id |-> 0, node |-> n])]
         IN  StoreNotify(HandleChangeWrapper(s1, n), Tail(ls))

Dispatch(st, v) ==
    LET s1 == [st EXCEPT !.storeState = v]
    IN  StoreNotify(s1, s1.storeListeners)

\* ------------------------------------------------------------- Provider
\* Faulty variant of the effect: notifyNestedSubs is called without comparing.
ProviderEffectAlwaysNotify(st, n, prev) ==
    LET s1 == [st EXCEPT !.onStateChange[n] = "notifyNestedSubs"]
        s2 == TrySubscribeSelf(s1, n)
    IN  NotifyNestedSubs(s2, n)

\* The effect of Provider: onStateChange = notifyNestedSubs; trySubscribe();
\* if (previousState !== store.getState()) notifyNestedSubs().
ProviderEffect(st, n, prev) ==
    LET s1 == [st EXCEPT !.onStateChange[n] = "notifyNestedSubs"]
        s2 == TrySubscribeSelf(s1, n)
    IN  IF prev # s2.storeState THEN NotifyNestedSubs(s2, n) ELSE s2

\* Faulty variant of the cleanup: onStateChange is left assigned.
ProviderCleanupKeepsHandler(st, n) == TryUnsubscribeSelf(st, n)

\* The effect's cleanup: tryUnsubscribe(); onStateChange = undefined.
ProviderCleanup(st, n) ==
    [TryUnsubscribeSelf(st, n) EXCEPT !.onStateChange[n] = "undefined"]

\* -------------------------------------------------------------- actions
Commit(r) ==
    /\ lst' = r.lst
    /\ regs' = r.regs
    /\ unsubscribe' = r.unsubscribe
    /\ listeners' = r.listeners
    /\ subscriptionsAmount' = r.subscriptionsAmount
    /\ selfSubscribed' = r.selfSubscribed
    /\ onStateChange' = r.onStateChange
    /\ storeListeners' = r.storeListeners
    /\ storeState' = r.storeState
    /\ trace' = r.trace
    /\ err' = r.err
    /\ calls' = r.calls
    /\ ghostLive' = r.ghostLive
    /\ cleared' = r.cleared

\* What only Provider's render, effect and store changes write.
provVars == <<previousState, effectActive, changes>>

\* The allocations of a call fit the model's heaps.
Fits(r) == Len(r.lst) <= MaxListeners /\ Len(r.regs) <= MaxRegs

Op(name, again) == [op |-> name, again |-> again]

\* The callbacks a consumer may register as listener l.
CallbackChoices(l) == {LeafCallback({}), LeafCallback({l})}

\* The listeners made by consumers (not a node's handleChangeWrapper).
LeafListeners == {l \in 1..Len(lst) : lst[l].callback.kind = "leaf"}

InitCommon ==
    /\ lst = <<>>
    /\ unsubscribe = [n \in Nodes |-> Undefined]
    /\ listeners = [n \in Nodes |-> 0]
    /\ subscriptionsAmount = [n \in Nodes |-> 0]
    /\ selfSubscribed = [n \in Nodes |-> FALSE]
    /\ onStateChange = [n \in Nodes |-> "undefined"]
    /\ storeListeners = <<>>
    /\ storeState = 1
    /\ previousState = 1
    /\ effectActive = FALSE
    /\ changes = 0
    /\ trace = <<>>
    /\ err = FALSE
    /\ calls = NoCalls
    /\ ghostLive = {}
    /\ cleared = FALSE
    /\ lastOp = Op("init", FALSE)

\* ---- the tree of Subscription nodes under one store
Init == InitCommon /\ regs = <<>>

OpTrySubscribe(n) ==
    LET r == TrySubscribeSelf(Begin(Cur), n)
    IN  /\ Fits(r)
        /\ Commit(r)
        /\ lastOp' = Op("trySubscribe", selfSubscribed[n])
        /\ UNCHANGED provVars

OpTryUnsubscribe(n) ==
    LET r == TryUnsubscribeSelf(Begin(Cur), n)
    IN  /\ Commit(r)
        /\ lastOp' = Op("tryUnsubscribe", ~selfSubscribed[n])
        /\ UNCHANGED provVars

OpAddNestedSub(n) ==
    LET r == AddNestedSub(Begin(Cur), n, LeafCallback({}))
    IN  /\ Fits(r)
        /\ Commit(r)
        /\ lastOp' = Op("addNestedSub", FALSE)
        /\ UNCHANGED provVars

OpRemoveNestedSub(l) ==
    LET r == RemoveNestedSub(Begin(Cur), l)
    IN  /\ Commit(r)
        /\ lastOp' = Op("removeNestedSub", l \notin ghostLive)
        /\ UNCHANGED provVars

OpSetOnStateChange(n, v) ==
    /\ onStateChange[n] # v
    /\ Commit([Begin(Cur) EXCEPT !.onStateChange[n] = v])
    /\ lastOp' = Op("setOnStateChange", FALSE)
    /\ UNCHANGED provVars

OpDispatch(v) ==
    /\ Commit(Dispatch(Begin(Cur), v))
    /\ lastOp' = Op("dispatch", FALSE)
    /\ UNCHANGED provVars

Next ==
    \/ \E n \in Nodes : OpTrySubscribe(n)
    \/ \E n \in Nodes : OpTryUnsubscribe(n)
    \/ \E n \in Nodes : OpAddNestedSub(n)
    \/ \E l \in LeafListeners : OpRemoveNestedSub(l)
    \/ \E n \in Nodes, v \in {"undefined", "notifyNestedSubs"} : OpSetOnStateChange(n, v)
    \/ OpDispatch(storeState)

Spec == Init /\ [][Next]_vars

\* ---- one listener collection, used directly
InitRegistry == InitCommon /\ regs = <<[first |-> 0, last |-> 0]>>

RegSubscribe(cb) ==
    LET r == Subscribe(Begin(Cur), 1, cb, 0)
    IN  /\ Fits(r)
        /\ Commit(r)
        /\ lastOp' = Op("subscribe", FALSE)
        /\ UNCHANGED provVars

RegUnsubscribe(l) ==
    /\ Commit(Unsubscribe(Begin(Cur), l))
    /\ lastOp' = Op("unsubscribe", l \notin ghostLive)
    /\ UNCHANGED provVars

RegNotify ==
    /\ Commit(Notify(Begin(Cur), 1))
    /\ lastOp' = Op("notify", FALSE)
    /\ UNCHANGED provVars

RegClear ==
    /\ Commit(Clear(Begin(Cur), 1))
    /\ lastOp' = Op("clear", FALSE)
    /\ UNCHANGED provVars

NextRegistry ==
    \/ \E cb \in CallbackChoices(Len(lst) + 1) : RegSubscribe(cb)
    \/ \E l \in 1..Len(lst) : RegUnsubscribe(l)
    \/ RegNotify
    \/ RegClear

SpecRegistry == InitRegistry /\ [][NextRegistry]_vars

\* ---- Provider: the root Subscription (node 1), its store, its children
ProvRoot == 1

InitProvider == InitCommon /\ regs = <<>>

ProvEffectRun ==
    /\ ~effectActive
    /\ LET r == ProviderEffect(Begin(Cur), ProvRoot, previousState)
       IN  Fits(r) /\ Commit(r)
    /\ effectActive' = TRUE
    /\ lastOp' = Op("effect", FALSE)
    /\ UNCHANGED <<previousState, changes>>

ProvEffectCleanup ==
    /\ effectActive
    /\ Commit(ProviderCleanup(Begin(Cur), ProvRoot))
    /\ effectActive' = FALSE
    /\ lastOp' = Op("cleanup", FALSE)
    /\ UNCHANGED <<previousState, changes>>

ProvDispatch(v) ==
    /\ Commit(Dispatch(Begin(Cur), v))
    /\ lastOp' = Op("dispatch", FALSE)
    /\ changes' = IF changes < MaxChanges THEN changes + 1 ELSE changes
    /\ UNCHANGED <<previousState, effectActive>>

ProvAddNestedSub ==
    LET r == AddNestedSub(Begin(Cur), ProvRoot, LeafCallback({}))
    IN  /\ Fits(r)
        /\ Commit(r)
        /\ lastOp' = Op("addNestedSub", FALSE)
        /\ UNCHANGED provVars

ProvRemoveNestedSub(l) ==
    /\ Commit(RemoveNestedSub(Begin(Cur), l))
    /\ lastOp' = Op("removeNestedSub", l \notin ghostLive)
    /\ UNCHANGED provVars

ProvNotifyNestedSubs ==
    /\ Commit(NotifyNestedSubs(Begin(Cur), ProvRoot))
    /\ lastOp' = Op("notifyNestedSubs", FALSE)
    /\ UNCHANGED provVars

ProvHandleChangeWrapper ==
    /\ Commit(HandleChangeWrapper(Begin(Cur), ProvRoot))
    /\ lastOp' = Op("handleChangeWrapper", FALSE)
    /\ UNCHANGED provVars

NextProvider ==
    \/ ProvEffectRun
    \/ ProvEffectCleanup
    \/ \E v \in States : ProvDispatch(v)
    \/ ProvAddNestedSub
    \/ \E l \in LeafListeners : ProvRemoveNestedSub(l)
    \/ ProvNotifyNestedSubs
    \/ ProvHandleChangeWrapper

SpecProvider == InitProvider /\ [][NextProvider]_vars

\* ---- one listener collection whose callbacks call it back during notify
\* The calls a callback can make on the collection that holds it.
RegistryCalls ==
    {Call("unsubscribe", x) : x \in 1..MaxListeners}
        \cup {Call("subscribe", 0), Call("throw", 0)}

\* The calls written in the callbacks of the listeners ls.
RECURSIVE StepsIn(_)
StepsIn(ls) ==
    IF ls = <<>> THEN 0
    ELSE (IF Head(ls).callback.kind = "script"
          THEN Len(Head(ls).callback.steps) ELSE 0) + StepsIn(Tail(ls))

\* The calls written in the callbacks of all listeners made so far.
StepsWritten == StepsIn(lst)

\* The callbacks of at most k calls drawn from C.
Scripts(C, k) == UNION {[1..m -> C] : m \in 0..k}

PassSubscribe(s) ==
    LET r == Subscribe(Begin(Cur), 1, ScriptCallback(s), 0)
    IN  /\ Fits(r)
        /\ Commit(r)
        /\ lastOp' = Op("subscribe", FALSE)
        /\ UNCHANGED provVars

PassNotify ==
    LET r == Notify(Begin(Cur), 1)
    IN  /\ Fits(r)
        /\ Commit(r)
        /\ lastOp' = Op("notify", FALSE)
        /\ UNCHANGED provVars

NextPass ==
    \/ \E s \in Scripts(RegistryCalls, MaxSteps - StepsWritten) : PassSubscribe(s)
    \/ PassNotify

SpecPass == InitRegistry /\ [][NextPass]_vars

\* ---- the tree of nodes, with consumers' callbacks that call it back
\* The calls a consumer's callback can make on the nodes of the tree.
TreeCalls ==
    {Call(d, n) : d \in {"addNestedSub", "trySubscribe", "tryUnsubscribe"}, n \in Nodes}
        \cup {Call("cleanup", l) : l \in 1..MaxListeners}

\* The listeners made for consumers: the cleanup closure is theirs to call.
ConsumerListeners == {l \in 1..Len(lst) : lst[l].callback.kind # "hcw"}

ReAddNestedSub(n, s) ==
    LET r == AddNestedSub(Begin(Cur), n, ScriptCallback(s))
    IN  /\ Fits(r)
        /\ Commit(r)
        /\ lastOp' = Op("addNestedSub", FALSE)
        /\ UNCHANGED provVars

ReNotifyNestedSubs(n) ==
    LET r == NotifyNestedSubs(Begin(Cur), n)
    IN  /\ Fits(r)
        /\ Commit(r)
        /\ lastOp' = Op("notifyNestedSubs", FALSE)
        /\ UNCHANGED provVars

ReHandleChangeWrapper(n) ==
    LET r == HandleChangeWrapper(Begin(Cur), n)
    IN  /\ Fits(r)
        /\ Commit(r)
        /\ lastOp' = Op("handleChangeWrapper", FALSE)
        /\ UNCHANGED provVars

\* onStateChange is assigned where Provider assigns it: on the root.
NextReentrant ==
    \/ \E n \in Nodes, s \in Scripts(TreeCalls, MaxTreeCalls - StepsWritten) :
          ReAddNestedSub(n, s)
    \/ OpSetOnStateChange(1, "notifyNestedSubs")
    \/ \E n \in Nodes : ReNotifyNestedSubs(n)
    \/ \E n \in Nodes : ReHandleChangeWrapper(n)

SpecReentrant == Init /\ [][NextReentrant]_vars

\* ------------------------------------------------------------ helpers
\* The members of a set of listeners in the order they were made.
RECURSIVE InOrder(_)
InOrder(S) ==
    IF S = {} THEN <<>>
    ELSE LET l == CHOOSE x \in S : \A y \in S : x <= y
         IN  <<l>> \o InOrder(S \ {l})

\* The listeners a call invoked, in order.
TraceIds(t) == [i \in 1..Len(t) |-> t[i].id]

\* The listeners of collection r registered and never removed by their handle.
LiveIn(r) == {l \in ghostLive : lst[l].reg = r}

\* The nodes above n in the tree.
RECURSIVE Ancestors(_)
Ancestors(n) ==
    IF ParentSub(n) = 0 THEN {} ELSE {ParentSub(n)} \cup Ancestors(ParentSub(n))

\* handleChangeWrapper of node a was invoked before position j of trace t.
HandlerRanBefore(t, a, j) ==
    \E i \in 1..(j - 1) : t[i].ev = "hcw" /\ t[i].node = a

\* The consumers' listeners of node n registered and never removed.
LiveLeaves(n) ==
    {l \in ghostLive : lst[l].callback.kind = "leaf" /\ lst[l].owner = n}

\* The consumers' listeners of node n a call invoked, in order.
LeafIdsOf(t, n) ==
    TraceIds(SelectSeq(t, LAMBDA e : e.ev = "leaf" /\ e.node = n))

\* Node n and every node above it relay a change to their nested listeners.
Relays(n) ==
    \A a \in {n} \cup Ancestors(n) : onStateChange[a] = "notifyNestedSubs"

\* The callbacks held by the collection of node n, in order.
CallbacksOf(st, n) ==
    [i \in 1..Len(GetListeners(st, n)) |-> st.lst[GetListeners(st, n)[i]].callback]

\* The listeners of consumers in a trace were all attached.
OnlyLive(t) ==
    \A j \in 1..Len(t) : t[j].ev = "leaf" => t[j].id \in ghostLive

\* Node n is disconnected: no upstream handle, nullListeners, no reason.
Disconnected(n) ==
    /\ unsubscribe[n] = Undefined
    /\ listeners[n] = 0
    /\ subscriptionsAmount[n] = 0

\* The fields of the nodes, the collections and the store's listeners.
nodeVars == <<lst, regs, unsubscribe, listeners, subscriptionsAmount,
              selfSubscribed, onStateChange, storeListeners>>

\* The positions of trace t where the callback of listener x was invoked.
Invoked(t, x) == {k \in 1..Len(t) : t[k].ev = "script" /\ t[k].id = x}

\* The positions of trace t recorded with the program as it was then.
Recorded(t) == {j \in 1..Len(t) : t[j].ev \notin {"hcw", "leaf"}}

\* A node with upstream handle u, collection ls and counter amt is either
\* disconnected or connected.
TwoStateOf(u, ls, amt) ==
    \/ u = Undefined /\ ls = 0 /\ amt = 0
    \/ u # Undefined /\ ls # 0 /\ amt >= 1

\* In program state st, and at every recorded moment of the call that led
\* to it, every node is either disconnected or connected.
TwoStatesIn(st) ==
    \A n \in Nodes :
        /\ TwoStateOf(st.unsubscribe[n], st.listeners[n], st.subscriptionsAmount[n])
        /\ \A j \in Recorded(st.trace) :
              TwoStateOf(st.trace[j].at.unsubscribe[n], st.trace[j].at.listeners[n],
                         st.trace[j].at.subscriptionsAmount[n])

\* --------------------------------------------------------------- claims
\* C1: in the pass of one store change, when handleChangeWrapper of a node or
\* a listener of a node's collection is invoked, handleChangeWrapper of every
\* node above that node was invoked earlier in the pass, and so was the
\* node's own before any listener of its collection.
C1_TopDown ==
    lastOp.op = "dispatch" =>
        \A j \in 1..Len(trace) :
            /\ \A a \in Ancestors(trace[j].node) : HandlerRanBefore(trace, a, j)
            /\ trace[j].ev = "leaf" => HandlerRanBefore(trace, trace[j].node, j)

\* A store change reached a consumer's listener on a node that has a parent.
C1_Witness ==
    /\ lastOp.op = "dispatch"
    /\ \E j \in 1..Len(trace) :
          trace[j].ev = "leaf" /\ Ancestors(trace[j].node) # {}

\* C2 as stated: a store change invokes every attached listener of consumers.
C2_Original ==
    lastOp.op = "dispatch" =>
        \A n \in Nodes : \A l \in LiveLeaves(n) :
            \E j \in 1..Len(trace) : trace[j].id = l

\* C2, amended: a store change invokes every attached listener of consumers
\* whose node, and every node above it, has onStateChange set to
\* notifyNestedSubs.
C2_InvokedWhenRelayed ==
    lastOp.op = "dispatch" =>
        \A n \in Nodes : Relays(n) =>
            \A l \in LiveLeaves(n) : \E j \in 1..Len(trace) : trace[j].id = l

\* A store change reached listeners of consumers on two levels of the tree.
C2_Witness ==
    /\ lastOp.op = "dispatch"
    /\ \A n \in Nodes : Relays(n) /\ LiveLeaves(n) # {}
    /\ \A n \in Nodes : \A l \in LiveLeaves(n) :
          \E j \in 1..Len(trace) : trace[j].id = l

\* C6: on a self-subscribed root whose onStateChange is notifyNestedSubs, a
\* store change invokes the root's attached listeners of consumers exactly
\* once each, in registration order.
C6_RootListenersInOrder ==
    \A n \in Nodes :
        (/\ lastOp.op = "dispatch"
         /\ ParentSub(n) = 0
         /\ selfSubscribed[n]
         /\ onStateChange[n] = "notifyNestedSubs")
        => LeafIdsOf(trace, n) = InOrder(LiveLeaves(n))

\* A store change invoked two listeners f and g of a self-subscribed root.
C6_Witness ==
    /\ lastOp.op = "dispatch"
    /\ selfSubscribed[1]
    /\ onStateChange[1] = "notifyNestedSubs"
    /\ Cardinality(LiveLeaves(1)) = 2
    /\ Len(LeafIdsOf(trace, 1)) = 2

\* C3: as long as no clear() emptied a collection that held listeners, get()
\* is exactly the listeners subscribed whose unsubscribe handle was never
\* called, in insertion order. A handle called a second time changes neither
\* side, so get() is as it was.
C3_GetIsLiveInOrder ==
    ~cleared => Get(Cur, 1) = InOrder(LiveIn(1))

\* A handle was called a second time while other listeners stay subscribed,
\* one of them made before and one after the listener removed.
C3_Witness ==
    /\ lastOp = Op("unsubscribe", TRUE)
    /\ ~cleared
    /\ Len(lst) = 3
    /\ ghostLive = {1, 3}

\* C4: in every call, the upstream subscribe of a node is called once if the
\* call takes the node's subscriptionsAmount from 0 to above 0 and not at all
\* otherwise, and its stored upstream unsubscribe is called once if the call
\* takes the counter from above 0 to 0 and not at all otherwise.
C4_EdgeTriggered ==
    [][\A n \in Nodes :
         /\ calls'[n].sub =
              IF subscriptionsAmount[n] = 0 /\ subscriptionsAmount'[n] > 0
              THEN 1 ELSE 0
         /\ calls'[n].unsub =
              IF subscriptionsAmount[n] > 0 /\ subscriptionsAmount'[n] = 0
              THEN 1 ELSE 0]_vars

\* The root connected a second time (its collection is the second one made)
\* by a call that called store.subscribe once.
C4_Witness ==
    /\ lastOp.op \in {"addNestedSub", "trySubscribe"}
    /\ listeners[1] = 2
    /\ calls[1].sub = 1
    /\ subscriptionsAmount[1] = 1

\* C5: the public trySubscribe on a self-subscribed node and the public
\* tryUnsubscribe on a node not self-subscribed change nothing. The public
\* trySubscribe that sets the flag raises the counter by exactly 1 and calls
\* the upstream subscribe at most once; the public tryUnsubscribe that clears
\* it lowers the counter by exactly 1 and, with no nested subscriber left,
\* leaves the node disconnected.
C5_SelfSubscribeIdempotent ==
    [][/\ (lastOp'.op \in {"trySubscribe", "tryUnsubscribe"} /\ lastOp'.again)
           => UNCHANGED nodeVars
       /\ \A n \in Nodes :
            /\ (lastOp'.op = "trySubscribe" /\ selfSubscribed'[n] # selfSubscribed[n])
                 => /\ selfSubscribed'[n]
                    /\ subscriptionsAmount'[n] = subscriptionsAmount[n] + 1
                    /\ calls'[n].sub <= 1
            /\ (lastOp'.op = "tryUnsubscribe" /\ selfSubscribed'[n] # selfSubscribed[n])
                 => /\ ~selfSubscribed'[n]
                    /\ subscriptionsAmount'[n] = subscriptionsAmount[n] - 1
                    /\ {l \in ghostLive : lst[l].owner = n} = {} => Disconnected(n)'
       /\ (lastOp'.op = "trySubscribe" /\ ~lastOp'.again)
           => \E n \in Nodes : ~selfSubscribed[n] /\ selfSubscribed'[n]
       /\ (lastOp'.op = "tryUnsubscribe" /\ ~lastOp'.again)
           => \E n \in Nodes : selfSubscribed[n] /\ ~selfSubscribed'[n]]_vars

\* The public trySubscribe was called again on a node that is self-subscribed
\* and holds one reason only.
C5_Witness ==
    /\ lastOp = Op("trySubscribe", TRUE)
    /\ \E n \in Nodes : selfSubscribed[n] /\ subscriptionsAmount[n] = 1

\* C7: a child node without reasons left has no handleChangeWrapper in its
\* parent's collection, and neither a store change nor notifyNestedSubs called
\* on any node invokes a listener whose cleanup was called.
C7_DetachedChildNotNotified ==
    /\ \A n \in Nodes :
          (ParentSub(n) # 0 /\ subscriptionsAmount[n] = 0) =>
              \A i \in 1..Len(CallbacksOf(Cur, ParentSub(n))) :
                  CallbacksOf(Cur, ParentSub(n))[i] # HandleChangeWrapperOf(n)
    /\ lastOp.op = "dispatch" => OnlyLive(trace)
    /\ \A p \in Nodes : OnlyLive(NotifyNestedSubs(Begin(Cur), p).trace)

\* A store change after the only listener h of child node 2 was removed:
\* the root is connected and relays, the child is disconnected.
C7_Witness ==
    /\ lastOp.op = "dispatch"
    /\ onStateChange[1] = "notifyNestedSubs"
    /\ onStateChange[2] = "notifyNestedSubs"
    /\ subscriptionsAmount[1] > 0
    /\ Disconnected(2)
    /\ Len(trace) > 0
    /\ \E l \in 1..Len(lst) :
          /\ lst[l].callback.kind = "leaf"
          /\ lst[l].owner = 2
          /\ lst[l].removed

\* C9: notifyNestedSubs called on a node without reasons (never connected,
\* or disconnected again) invokes no callback, throws nothing and changes no
\* field of the node, no collection and no listener of the store; get() of
\* such a node's listeners is empty.
C9_NotifyWhenDisconnected ==
    [][/\ \A n \in Nodes :
            subscriptionsAmount[n] = 0 => GetListeners(Cur, n) = <<>>
       /\ (lastOp'.op = "notifyNestedSubs" /\ subscriptionsAmount[ProvRoot] = 0)
           => (trace' = <<>> /\ ~err' /\ UNCHANGED nodeVars)]_vars

\* notifyNestedSubs was called on the root after it had been connected and
\* disconnected again.
C9_Witness ==
    /\ lastOp.op = "notifyNestedSubs"
    /\ calls[ProvRoot].notify = 1
    /\ Disconnected(ProvRoot)
    /\ Len(regs) > 0
    /\ trace = <<>>

\* C10: the Provider effect calls notifyNestedSubs once when the store's state
\* differs from the snapshot captured at render and not at all when it is
\* the same, however many store changes happened since render; the root's
\* attached listeners are invoked once each in the first case, not in the
\* second.
C10_AttachNotifiesNetChange ==
    lastOp.op = "effect" =>
        IF storeState # previousState
        THEN /\ calls[ProvRoot].notify = 1
             /\ LeafIdsOf(trace, ProvRoot) = InOrder(LiveLeaves(ProvRoot))
        ELSE /\ calls[ProvRoot].notify = 0
             /\ trace = <<>>

\* The effect ran after two store changes that brought the store back to the
\* snapshot, with a listener attached: nothing was notified.
C10_Witness ==
    /\ lastOp.op = "effect"
    /\ changes = 2
    /\ storeState = previousState
    /\ LiveLeaves(ProvRoot) # {}
    /\ trace = <<>>

\* Listener l's callback calls the unsubscribe handle of l itself.
SelfRemoving(l) == lst[l].callback.unsub = {l}

\* No callback of collection 1 removes a listener other than its own.
OnlySelfRemoving ==
    \A i \in 1..Len(Get(Cur, 1)) :
        lst[Get(Cur, 1)[i]].callback.unsub \subseteq {Get(Cur, 1)[i]}

\* C8: in a notify pass over listeners whose callbacks remove at most their
\* own listener, every listener that get() held when the pass began is
\* invoked exactly once, in order, and the pass completes.
C8_SelfUnsubscribeInPass ==
    [][(lastOp'.op = "notify" /\ OnlySelfRemoving)
       => (TraceIds(trace') = Get(Cur, 1) /\ ~err')]_vars

\* A pass over three listeners in which the middle one removed itself.
C8_Witness ==
    /\ lastOp.op = "notify"
    /\ ~cleared /\ ~err
    /\ TraceIds(trace) = <<1, 2, 3>>
    /\ SelfRemoving(2) /\ ~SelfRemoving(1) /\ ~SelfRemoving(3)
    /\ ghostLive = {1, 3}
    /\ Get(Cur, 1) = <<1, 3>>

\* C11: in a notify pass, a listener whose unsubscribe handle a callback calls
\* before the pass has invoked that listener is not invoked later in the pass,
\* whichever handles the callback calls, its own included.
C11_RemovedBeforeVisitNotInvoked ==
    lastOp.op = "notify" =>
        \A j \in 1..Len(trace) :
            (/\ trace[j].ev = "unsubscribe"
             /\ \A k \in Invoked(trace, trace[j].id) : k > j)
            => Invoked(trace, trace[j].id) = {}

\* Listener x, subscribed at position j of trace t, had its handle called
\* later in t before the pass invoked it.
RemovedBeforeVisit(t, j, x) ==
    \E i \in (j + 1)..Len(t) :
        /\ t[i].ev = "unsubscribe" /\ t[i].id = x
        /\ \A k \in Invoked(t, x) : k > i

\* C12: a listener a callback subscribes during a notify pass is invoked
\* exactly once later in that pass (a pass that no callback's throw ended),
\* unless its handle is called in the pass before it is reached, and then it
\* is not invoked; also when the callback that subscribes is the one of the
\* last listener and calls its own handle.
C12_SubscribedInPassInvokedOnce ==
    lastOp.op = "notify" =>
        \A j \in 1..Len(trace) :
            trace[j].ev = "subscribe" =>
                IF RemovedBeforeVisit(trace, j, trace[j].id)
                THEN Invoked(trace, trace[j].id) = {}
                ELSE ~err => Cardinality(Invoked(trace, trace[j].id)) = 1

\* The position in trace t of the last callback invoked.
LastInvoked(t) ==
    CHOOSE j \in 1..Len(t) :
        t[j].ev = "script" /\ \A k \in (j + 1)..Len(t) : t[k].ev # "script"

\* The listeners that stand before listener f in the sequence g.
BeforeIn(g, f) == {g[i] : i \in {i \in 1..Len(g) : \E k \in (i + 1)..Len(g) : g[k] = f}}

Others(g, l) == SelectSeq(g, LAMBDA x : x # l)

\* C18: clear() invokes no callback and leaves get() empty, and the
\* unsubscribe handle of a listener, whenever it is called (also when it was
\* issued before a clear()), leaves the other listeners of get() in get(),
\* in the same order.
C18_HandleRemovesOnlyItsOwn ==
    [][/\ lastOp'.op = "clear" => (trace' = <<>> /\ Get(Cur, 1)' = <<>>)
       /\ \A l \in 1..Len(lst) :
             RegUnsubscribe(l) => Others(Get(Cur, 1)', l) = Others(Get(Cur, 1), l)]_vars

\* C13: after every call of addNestedSub, a cleanup closure, the public
\* trySubscribe and tryUnsubscribe, notifyNestedSubs and handleChangeWrapper,
\* made from outside or by a callback during a notify pass, every node is
\* either disconnected (no upstream handle, nullListeners, counter 0) or
\* connected (upstream handle, a collection of its own, counter at least 1).
C13_TwoStates ==
    /\ TwoStatesIn(Cur)
    /\ \A n \in Nodes :
          /\ TwoStatesIn(TrySubscribeSelf(Begin(Cur), n))
          /\ TwoStatesIn(TryUnsubscribeSelf(Begin(Cur), n))
    /\ \A l \in ConsumerListeners : TwoStatesIn(RemoveNestedSub(Begin(Cur), l))

\* During a notify pass a callback called the cleanup closure that was the
\* last reason of the child node: child and root were connected before that
\* call and are both disconnected after it.
C13_Witness ==
    /\ lastOp.op = "notifyNestedSubs"
    /\ \E j \in Recorded(trace) :
          /\ trace[j].ev = "cleanup"
          /\ j - 1 \in Recorded(trace)
          /\ trace[j - 1].at.subscriptionsAmount = [n \in Nodes |-> 1]
          /\ trace[j].at.subscriptionsAmount = [n \in Nodes |-> 0]
          /\ trace[j].at.listeners = [n \in Nodes |-> 0]

\* C20: no call, made from outside or by a callback during a notify pass,
\* ends in the TypeError of a subscribe or a clear called on nullListeners:
\* addNestedSub and tryUnsubscribe find a collection made by
\* createListenerCollection in listeners when they call subscribe and clear.
C20_NullListenersNeverMutated ==
    /\ ~err
    /\ \A n \in Nodes :
          /\ ~AddNestedSub(Begin(Cur), n, ScriptCallback(<<>>)).err
          /\ ~TryUnsubscribeSelf(Begin(Cur), n).err
    /\ \A l \in ConsumerListeners : ~RemoveNestedSub(Begin(Cur), l).err

\* During a notify pass a callback called addNestedSub on the child node
\* while the child was disconnected: the child got a collection and its
\* handleChangeWrapper was subscribed to the root's collection.
C20_Witness ==
    /\ lastOp.op = "handleChangeWrapper"
    /\ ~err
    /\ \E j \in Recorded(trace) :
          /\ trace[j].ev = "addNestedSub" /\ trace[j].node = 2
          /\ j - 1 \in Recorded(trace)
          /\ trace[j - 1].at.listeners[2] = 0
          /\ trace[j].at.listeners[2] # 0
          /\ Len(trace[j].at.get) = 2

\* The registrations made by addNestedSub on node n whose cleanup closure
\* was never called.
Registrations(n) == {l \in ghostLive : lst[l].owner = n}

\* C14: subscriptionsAmount of a node is the number of addNestedSub
\* registrations on it whose cleanup was never called, plus 1 if the node is
\* self-subscribed, and it is never negative, however often the public
\* tryUnsubscribe or a cleanup closure is called again.
C14_CounterAccounting ==
    \A n \in Nodes :
        /\ subscriptionsAmount[n] =
              Cardinality(Registrations(n)) + (IF selfSubscribed[n] THEN 1 ELSE 0)
        /\ subscriptionsAmount[n] >= 0

\* A cleanup closure was called a second time on a self-subscribed node
\* that keeps one more registration: the counter is 2.
C14_Witness ==
    /\ lastOp = Op("removeNestedSub", TRUE)
    /\ \E n \in Nodes :
          /\ selfSubscribed[n]
          /\ Cardinality(Registrations(n)) = 1
          /\ subscriptionsAmount[n] = 2
          /\ \E l \in LeafListeners : lst[l].owner = n /\ lst[l].removed

\* Node n is connected: upstream handle, a collection of its own, reasons.
Connected(n) ==
    /\ unsubscribe[n] # Undefined
    /\ listeners[n] # 0
    /\ subscriptionsAmount[n] >= 1

\* How many times handleChangeWrapper of node n is held upstream: by the
\* collection of its parent or, for a root, by the store.
UpstreamCount(n) ==
    IF ParentSub(n) = 0
    THEN Len(SelectSeq(storeListeners, LAMBDA x : x = n))
    ELSE Len(SelectSeq(CallbacksOf(Cur, ParentSub(n)),
                       LAMBDA c : c = HandleChangeWrapperOf(n)))

\* C15: handleChangeWrapper of a connected node is held exactly once by its
\* parent's collection or, for a node without parent, by the store, and that
\* of a disconnected node is held by neither; the store holds no listener of
\* a node that has a parent, so at most one per root.
C15_SingleUpstreamRegistration ==
    \A n \in Nodes :
        /\ Connected(n) => UpstreamCount(n) = 1
        /\ Disconnected(n) => UpstreamCount(n) = 0
        /\ Len(SelectSeq(storeListeners, LAMBDA x : x = n))
              <= (IF ParentSub(n) = 0 THEN 1 ELSE 0)

\* Root and child are connected, the root's collection holds a consumer's
\* listener and the child's handleChangeWrapper, the store holds the root's.
C15_Witness ==
    /\ Connected(1) /\ Connected(2)
    /\ Len(GetListeners(Cur, 1)) = 2
    /\ UpstreamCount(2) = 1
    /\ storeListeners = <<1>>

\* The nodes on the way up from node m to its ancestor a, a included.
UpTo(m, a) == {b \in Ancestors(m) : a \in {b} \cup Ancestors(b)}

\* C19: when a call releases the last reason of a node, the node is
\* disconnected by that call, and so is each node above it up to and
\* excluding the first one that holds a reason other than the one node below
\* it, the upstream unsubscribe of each being called exactly once, and the
\* root's listener being removed from the store when the root is among
\* them; a node on the way up that holds another reason stays connected, and
\* so do all nodes above it, and their upstream unsubscribe is not called.
C19_CascadingTeardown ==
    [][\A m \in Nodes :
         (subscriptionsAmount[m] = 1 /\ subscriptionsAmount'[m] = 0) =>
            /\ Disconnected(m)' /\ calls'[m].unsub = 1
            /\ \A a \in Ancestors(m) :
                  IF \A b \in UpTo(m, a) : subscriptionsAmount[b] = 1
                  THEN /\ Disconnected(a)' /\ calls'[a].unsub = 1
                       /\ ParentSub(a) = 0 =>
                             SelectSeq(storeListeners', LAMBDA x : x = a) = <<>>
                  ELSE /\ Connected(a)' /\ calls'[a].unsub = 0
                       /\ ParentSub(a) = 0 =>
                             SelectSeq(storeListeners', LAMBDA x : x = a) = <<a>>]_vars

\* The cleanup closure of the only listener of the lowest node was called:
\* every node of the chain was disconnected by that call and the store holds
\* no listener.
C19_Witness ==
    /\ lastOp = Op("removeNestedSub", FALSE)
    /\ \A n \in Nodes : Disconnected(n) /\ calls[n].unsub = 1
    /\ storeListeners = <<>>

\* C16: through every sequence of runs and cleanups of Provider's effect,
\* while the effect is active the root is self-subscribed, its onStateChange
\* is notifyNestedSubs and the store holds exactly one listener, the root's;
\* after a cleanup onStateChange is undefined, isSubscribed() is false, the
\* store holds no listener once no nested registration remains, and a store
\* change invokes no nested listener.
C16_ProviderLifetimePairing ==
    IF effectActive
    THEN /\ IsSubscribed(Cur, ProvRoot)
         /\ onStateChange[ProvRoot] = "notifyNestedSubs"
         /\ storeListeners = <<ProvRoot>>
    ELSE /\ ~IsSubscribed(Cur, ProvRoot)
         /\ onStateChange[ProvRoot] = "undefined"
         /\ Registrations(ProvRoot) = {} => storeListeners = <<>>
         /\ lastOp.op = "dispatch" => \A j \in 1..Len(trace) : trace[j].ev # "leaf"

\* A store change after the effect's cleanup, while a nested listener keeps
\* the root connected: the store called the root's handleChangeWrapper and
\* no listener was invoked.
C16_Witness ==
    /\ lastOp.op = "dispatch"
    /\ ~effectActive
    /\ Registrations(ProvRoot) # {}
    /\ storeListeners = <<ProvRoot>>
    /\ trace = <<[ev |-> "hcw", id |-> 0, node |-> ProvRoot]>>
    /\ \E l \in LeafListeners : lst[l].removed

====
